---- MODULE Spec2Model ----
(***************************************************************************)
(* Word-level model of the implicit-free-list allocator of                 *)
(* malloc-lab/mm.c (boundary tags, next-fit rover, immediate coalescing).  *)
(*                                                                         *)
(* Memory is the provider's arena of 4-byte words.  Before the program    *)
(* writes it every word holds the same unspecified content, fill; mem maps *)
(* the index of each word that differs from fill to its value.  Pointers   *)
(* are byte addresses; NULL is 0 and the arena starts at MEM_START.        *)
(*                                                                         *)
(* size_t values.  TLC's integers are narrower than size_t, so a size_t    *)
(* value v is held as its representative modulo 2^w nearest to zero:       *)
(* v itself when v is small, and v - 2^w (a negative number) when v is     *)
(* within the model's window below 2^w.  So -1 stands for SIZE_MAX and     *)
(* -15 for SIZE_MAX - 14.  Addition, subtraction and multiplication by a   *)
(* constant are the same on representatives as modulo 2^w.  Because 2^w    *)
(* is a multiple of 8, c * (v / c) for c in {4, 8} equals c * (r \div c)   *)
(* on the representative r (\div rounds down), and v / 4 has the parity    *)
(* of r \div 4.  Unsigned comparisons are U_LE, U_LT below.                *)
(***************************************************************************)
EXTENDS Integers, Sequences, FiniteSets, TLC

(* fill: the word every untouched word of the arena holds; mem_max: the    *)
(* number of bytes the provider is able to hand out in this run.           *)
VARIABLES fill, mem_max

(* ------------------------------ constants ------------------------------ *)
WSIZE == 4
DSIZE == 8
CHUNKSIZE == 4096
NULL == 0

(* The provider (memlib): arena start address; MaxHeap, the bytes it is    *)
(* able to hand out in the runs of Spec and SpecScenario; WrapHeap, the    *)
(* bytes it is able to hand out in the runs of SpecWrap, which is also the *)
(* length of the arena.                                                    *)
MEM_START == 8
MaxHeap == 8400
WrapHeap == 12400

(* Bounds of the exploration.                                              *)
MaxOps == 3
ScenarioOps == 4
WrapOps == 5
MaxLive == 3
WriteMax == 6

ArenaWords == WrapHeap \div WSIZE

(* ------------------------- unsigned arithmetic ------------------------- *)
U_LE(a, b) == IF (a < 0) = (b < 0) THEN a <= b ELSE b < 0
U_LT(a, b) == IF (a < 0) = (b < 0) THEN a < b ELSE b < 0
MinU(x, y) == IF U_LT(x, y) THEN x ELSE y
MAX(x, y) == IF U_LT(y, x) THEN x ELSE y
PACK(size, a) == size + a

(* ------------------------------- memory -------------------------------- *)
Idx(p) == (p - MEM_START) \div WSIZE
InArena(p) == p >= MEM_START /\ p % WSIZE = 0 /\ Idx(p) < ArenaWords
AllInArena(P) == \A p \in P : InArena(p)

GET(m, p) ==
    IF ~InArena(p) THEN 0
    ELSE IF Idx(p) \in DOMAIN m THEN m[Idx(p)] ELSE fill

(* The memory m with word k set to val.                                    *)
Store(m, k, val) ==
    IF val = fill THEN [i \in DOMAIN m \ {k} |-> m[i]]
    ELSE [i \in DOMAIN m \cup {k} |-> IF i = k THEN val ELSE m[i]]
GET_SIZE(m, p) == GET(m, p) - (GET(m, p) % 8)
GET_ALLOC(m, p) == GET(m, p) % 2
HDRP(bp) == bp - WSIZE
FTRP(m, bp) == bp + GET_SIZE(m, HDRP(bp)) - DSIZE
NEXT_BLKP(m, bp) == bp + GET_SIZE(m, HDRP(bp))
PREV_BLKP(m, bp) == bp - GET_SIZE(m, bp - DSIZE)

(* An execution state of a call: s.mem, s.rover, s.brk are the allocator's *)
(* memory and globals, s.ret the value being returned, s.calls the sizes   *)
(* asked of the provider during the call, and s.st is "ok", "hang" (a loop *)
(* that never ends) or "undefined" (an access outside the arena, or an     *)
(* overlapping memcpy: undefined behaviour, any outcome is possible).      *)
(* Every statement below maps an execution state to the next one and       *)
(* leaves a state that is not "ok" as it is.                               *)
Undefined(s) == [s EXCEPT !.st = "undefined"]
Hang(s) == [s EXCEPT !.st = "hang"]
Return(s, v) == IF s.st # "ok" THEN s ELSE [s EXCEPT !.ret = v]
SetRover(s, bp) == IF s.st # "ok" THEN s ELSE [s EXCEPT !.rover = bp]

PUT(s, p, val) ==
    IF s.st # "ok" THEN s
    ELSE IF InArena(p) THEN [s EXCEPT !.mem = Store(s.mem, Idx(p), val)]
    ELSE Undefined(s)

(* PUT(HDRP(bp), val) and PUT(FTRP(bp), val); the footer's address is read *)
(* from the header as it is when the statement runs.                       *)
PutHdr(s, bp, val) == PUT(s, HDRP(bp), val)
PutFtr(s, bp, val) ==
    IF s.st # "ok" THEN s
    ELSE IF ~InArena(HDRP(bp)) THEN Undefined(s)
    ELSE PUT(s, FTRP(s.mem, bp), val)

(* heap_listp after mm_init: the prologue's payload pointer.               *)
heap_listp == MEM_START + 2 * WSIZE

(* ------------------------------ provider ------------------------------- *)
(* mem_sbrk: extends the region by incr bytes and returns the old top, or  *)
(* fails (-1) when the arena cannot hold it or the provider refuses.       *)
mem_sbrk(s, incr, grant) ==
    IF grant /\ incr >= 0 /\ s.brk + incr <= mem_max
    THEN [s EXCEPT !.ret = MEM_START + s.brk, !.brk = @ + incr,
                   !.calls = Append(@, incr)]
    ELSE [s EXCEPT !.ret = -1, !.calls = Append(@, incr)]

(* ------------------------------ coalesce ------------------------------- *)
(* rover = bp; return bp;                                                  *)
CoalesceDone(s, bp) == Return(SetRover(s, bp), bp)

(* bp = PREV_BLKP(bp); rover = bp; return bp;                              *)
CoalesceDonePrev(s, bp) ==
    IF s.st # "ok" THEN s ELSE CoalesceDone(s, PREV_BLKP(s.mem, bp))

(* PUT(HDRP(PREV_BLKP(bp)), val)                                           *)
PutPrevHdr(s, bp, val) ==
    IF s.st # "ok" THEN s
    ELSE IF ~InArena(bp - DSIZE) THEN Undefined(s)
    ELSE PUT(s, HDRP(PREV_BLKP(s.mem, bp)), val)

(* PUT(FTRP(NEXT_BLKP(bp)), val)                                           *)
PutNextFtr(s, bp, val) ==
    IF s.st # "ok" THEN s
    ELSE IF ~InArena(HDRP(bp)) THEN Undefined(s)
    ELSE PutFtr(s, NEXT_BLKP(s.mem, bp), val)

coalesce(s, bp) ==
    IF s.st # "ok" THEN s
    ELSE IF ~AllInArena({bp - DSIZE, HDRP(bp)}) THEN Undefined(s)
    ELSE
    LET m == s.mem
        prev == PREV_BLKP(m, bp)
        next == NEXT_BLKP(m, bp)
    IN
    IF ~AllInArena({HDRP(prev), HDRP(next)}) THEN Undefined(s)
    ELSE IF ~InArena(FTRP(m, prev)) THEN Undefined(s)
    ELSE
    LET prev_alloc == GET_ALLOC(m, FTRP(m, prev))
        next_alloc == GET_ALLOC(m, HDRP(next))
        size == GET_SIZE(m, HDRP(bp))
    IN
    IF prev_alloc = 1 /\ next_alloc = 1 THEN
        Return(s, bp)
    ELSE IF prev_alloc = 1 /\ next_alloc = 0 THEN
        LET size2 == size + GET_SIZE(m, HDRP(next))
        IN CoalesceDone(
             PutFtr(PutHdr(s, bp, PACK(size2, 0)), bp, PACK(size2, 0)), bp)
    ELSE IF prev_alloc = 0 /\ next_alloc = 1 THEN
        LET size3 == size + GET_SIZE(m, HDRP(prev))
        IN CoalesceDonePrev(
             PutPrevHdr(PutFtr(s, bp, PACK(size3, 0)), bp, PACK(size3, 0)), bp)
    ELSE
        IF ~InArena(FTRP(m, next)) THEN Undefined(s)
        ELSE
        LET size4 == size + GET_SIZE(m, HDRP(prev))
                          + GET_SIZE(m, FTRP(m, next))
        IN CoalesceDonePrev(
             PutNextFtr(PutPrevHdr(s, bp, PACK(size4, 0)), bp, PACK(size4, 0)),
             bp)

(* ----------------------------- extend_heap ----------------------------- *)
(* PUT(HDRP(NEXT_BLKP(bp)), PACK(0, 1)): the new epilogue header.          *)
PutNextHdr(s, bp, val) ==
    IF s.st # "ok" THEN s
    ELSE IF ~InArena(HDRP(bp)) THEN Undefined(s)
    ELSE PUT(s, HDRP(NEXT_BLKP(s.mem, bp)), val)

(* extend_heap after mem_sbrk returned b.ret.                              *)
ExtendFormat(b, size) ==
    IF b.ret = -1 THEN Return(b, NULL)
    ELSE coalesce(
           SetRover(
             PutNextHdr(
               PutFtr(PutHdr(b, b.ret, PACK(size, 0)), b.ret, PACK(size, 0)),
               b.ret, PACK(0, 1)),
             b.ret),
           b.ret)

extend_heap(s, words, grant) ==
    LET size == IF words % 2 = 1 THEN (words + 1) * WSIZE ELSE words * WSIZE
    IN ExtendFormat(mem_sbrk(s, size, grant), size)

(* ------------------------------ find_fit ------------------------------- *)
(* First loop: from the rover up to the epilogue (size 0).                 *)
RECURSIVE FitFromRover(_, _, _)
FitFromRover(s, asize, bp) ==
    IF ~InArena(HDRP(bp)) THEN Undefined(s)
    ELSE IF ~(GET_SIZE(s.mem, HDRP(bp)) > 0) THEN Return(s, NULL)
    ELSE IF GET_ALLOC(s.mem, HDRP(bp)) = 0
            /\ U_LE(asize, GET_SIZE(s.mem, HDRP(bp)))
         THEN Return(s, bp)
    ELSE FitFromRover(s, asize, NEXT_BLKP(s.mem, bp))

(* Second loop: from the first block until bp = rover; it has no size-0    *)
(* guard, so a walk that reaches a size-0 header away from the rover never *)
(* ends.                                                                   *)
RECURSIVE FitFromStart(_, _, _)
FitFromStart(s, asize, bp) ==
    IF bp = s.rover THEN Return(s, NULL)
    ELSE IF ~InArena(HDRP(bp)) THEN Undefined(s)
    ELSE IF GET_ALLOC(s.mem, HDRP(bp)) = 0
            /\ U_LE(asize, GET_SIZE(s.mem, HDRP(bp)))
         THEN Return(s, bp)
    ELSE IF GET_SIZE(s.mem, HDRP(bp)) = 0 THEN Hang(s)
    ELSE FitFromStart(s, asize, NEXT_BLKP(s.mem, bp))

(* find_fit after the first loop ended in a.                               *)
FitWrap(a, asize) ==
    IF a.st # "ok" \/ a.ret # NULL THEN a
    ELSE FitFromStart(a, asize, NEXT_BLKP(a.mem, heap_listp))

find_fit(s, asize) == FitWrap(FitFromRover(s, asize, s.rover), asize)

(* -------------------------------- place -------------------------------- *)
(* bp = NEXT_BLKP(bp); PUT(HDRP(bp), val); PUT(FTRP(bp), val); rover = bp; *)
PlaceRemainder(s, bp, val) ==
    IF s.st # "ok" THEN s
    ELSE IF ~InArena(HDRP(bp)) THEN Undefined(s)
    ELSE SetRover(PutFtr(PutHdr(s, NEXT_BLKP(s.mem, bp), val),
                         NEXT_BLKP(s.mem, bp), val),
                  NEXT_BLKP(s.mem, bp))

(* rover = NEXT_BLKP(bp);                                                  *)
RoverToNext(s, bp) ==
    IF s.st # "ok" THEN s ELSE SetRover(s, NEXT_BLKP(s.mem, bp))

place(s, bp, asize) ==
    IF s.st # "ok" THEN s
    ELSE IF ~InArena(HDRP(bp)) THEN Undefined(s)
    ELSE
    LET csize == GET_SIZE(s.mem, HDRP(bp))
    IN
    IF U_LE(2 * DSIZE, csize - asize) THEN
        PlaceRemainder(
          PutFtr(PutHdr(s, bp, PACK(asize, 1)), bp, PACK(asize, 1)),
          bp, PACK(csize - asize, 0))
    ELSE
        RoverToNext(
          PutFtr(PutHdr(s, bp, PACK(csize, 1)), bp, PACK(csize, 1)), bp)

(* ------------------------------ mm_malloc ------------------------------ *)
(* The adjusted block size: size + 8 bytes of tags rounded up to 8, and at *)
(* least 16; computed modulo 2^w as the code computes it.                  *)
AdjustedSize(size) ==
    IF U_LE(size, DSIZE) THEN 2 * DSIZE
    ELSE DSIZE * ((size + DSIZE + (DSIZE - 1)) \div DSIZE)

(* place(bp, asize); return bp;                                            *)
PlaceAndReturn(s, bp, asize) == Return(place(s, bp, asize), bp)

(* MallocExtended without the test of extend_heap's result.                *)
MallocExtended_Unchecked(e, asize) ==
    IF e.st # "ok" THEN e
    ELSE PlaceAndReturn(e, e.ret, asize)

(* mm_malloc after extend_heap returned e.ret.                             *)
MallocExtended(e, asize) ==
    IF e.st # "ok" \/ e.ret = NULL THEN e
    ELSE PlaceAndReturn(e, e.ret, asize)

(* mm_malloc after find_fit returned f.ret.                                *)
MallocFound(f, asize, grant) ==
    IF f.st # "ok" THEN f
    ELSE IF f.ret # NULL THEN PlaceAndReturn(f, f.ret, asize)
    ELSE MallocExtended(
           extend_heap(f, MAX(asize, CHUNKSIZE) \div WSIZE, grant), asize)

(* mm_malloc without the size == 0 case.                                   *)
mm_malloc_NoZeroCase(s, size, grant) ==
    IF s.st # "ok" THEN s
    ELSE MallocFound(find_fit(s, AdjustedSize(size)), AdjustedSize(size), grant)

mm_malloc(s, size, grant) ==
    IF s.st # "ok" THEN s
    ELSE IF size = 0 THEN Return(s, NULL)
    ELSE MallocFound(find_fit(s, AdjustedSize(size)), AdjustedSize(size), grant)

(* ------------------------------- mm_free ------------------------------- *)
(* size = GET_SIZE(HDRP(bp)); PUT(HDRP(bp), ..); PUT(FTRP(bp), ..);        *)
FreeMark(s, bp) ==
    IF ~InArena(HDRP(bp)) THEN Undefined(s)
    ELSE PutFtr(PutHdr(s, bp, PACK(GET_SIZE(s.mem, HDRP(bp)), 0)),
                bp, PACK(GET_SIZE(s.mem, HDRP(bp)), 0))

mm_free(s, bp) ==
    IF s.st # "ok" THEN s
    ELSE IF bp = NULL THEN s
    ELSE Return(coalesce(FreeMark(s, bp), bp), NULL)

(* -------------------------------- memcpy ------------------------------- *)
(* The low k bytes of word a over word b (little-endian byte order).       *)
LowBytes(a, b, k) ==
    LET q == IF k = 1 THEN 256 ELSE IF k = 2 THEN 65536 ELSE 16777216
    IN (a % q) + (b - (b % q))

(* The word at index i of memory m.                                        *)
WordAt(m, i) == IF i \in DOMAIN m THEN m[i] ELSE fill

(* Memory m with the words d0 .. d0+nw-1 and the low k bytes of word d0+nw *)
(* replaced by what new[i] gives for each of them.                         *)
Overwrite(m, d0, nw, k, new) ==
    LET top == IF k = 0 THEN d0 + nw - 1 ELSE d0 + nw
        val(i) == IF i = d0 + nw THEN LowBytes(new[i], WordAt(m, i), k)
                  ELSE new[i]
        dom == (DOMAIN m \ (d0 .. top)) \cup {i \in d0 .. top : val(i) # fill}
    IN [i \in dom |-> IF i >= d0 /\ i <= top THEN val(i) ELSE m[i]]

CopyWords(m, d0, s0, nw, k) ==
    Overwrite(m, d0, nw, k,
              [i \in d0 .. d0 + nw |-> WordAt(m, s0 + (i - d0))])

(* memcpy(dst, src, n) on 4-aligned pointers: n \div 4 whole words and the *)
(* low n % 4 bytes of the next one.  Overlapping ranges, a range outside   *)
(* the arena, or a length that is a wrapped size are undefined behaviour.  *)
memcpy(s, dst, src, n) ==
    IF s.st # "ok" THEN s
    ELSE IF n = 0 THEN s
    ELSE IF n < 0 THEN Undefined(s)
    ELSE IF ~AllInArena({dst, src, dst + WSIZE * ((n - 1) \div WSIZE),
                         src + WSIZE * ((n - 1) \div WSIZE)})
    THEN Undefined(s)
    ELSE IF dst < src + n /\ src < dst + n THEN Undefined(s)
    ELSE [s EXCEPT !.mem =
            CopyWords(s.mem, Idx(dst), Idx(src), n \div WSIZE, n % WSIZE)]

(* ------------------------------ mm_realloc ----------------------------- *)
(* oldsize = GET_SIZE(HDRP(ptr)) - DSIZE;                                  *)
(* copySize = (size < oldsize) ? size : oldsize;                           *)
CopySize(m, ptr, size) ==
    LET oldsize == GET_SIZE(m, HDRP(ptr)) - DSIZE
    IN IF U_LT(size, oldsize) THEN size ELSE oldsize

(* ReallocMove that frees the old block also when mm_malloc failed.        *)
ReallocMove_FreeOnFailure(a, ptr, size) ==
    IF a.st # "ok" THEN a
    ELSE IF a.ret = NULL THEN Return(mm_free(a, ptr), NULL)
    ELSE IF ~InArena(HDRP(ptr)) THEN Undefined(a)
    ELSE Return(mm_free(memcpy(a, a.ret, ptr, CopySize(a.mem, ptr, size)), ptr),
                a.ret)

(* mm_realloc after mm_malloc returned a.ret.                              *)
ReallocMove(a, ptr, size) ==
    IF a.st # "ok" \/ a.ret = NULL THEN a
    ELSE IF ~InArena(HDRP(ptr)) THEN Undefined(a)
    ELSE Return(mm_free(memcpy(a, a.ret, ptr, CopySize(a.mem, ptr, size)), ptr),
                a.ret)

(* mm_realloc without the ptr == NULL case.                                *)
mm_realloc_NoNullCase(s, ptr, size, grant) ==
    IF size = 0 THEN Return(mm_free(s, ptr), NULL)
    ELSE ReallocMove(mm_malloc(s, size, grant), ptr, size)

mm_realloc(s, ptr, size, grant) ==
    IF ptr = NULL THEN mm_malloc(s, size, grant)
    ELSE IF size = 0 THEN Return(mm_free(s, ptr), NULL)
    ELSE ReallocMove(mm_malloc(s, size, grant), ptr, size)

(* ------------------------------- mm_init ------------------------------- *)
(* mm_init after extend_heap returned e.ret: 0 on success, -1 on failure.  *)
InitDone(e) ==
    IF e.st # "ok" THEN e
    ELSE IF e.ret = NULL THEN Return(e, -1)
    ELSE Return(SetRover(e, NEXT_BLKP(e.mem, heap_listp)), 0)

(* mm_init after mem_sbrk returned b.ret.                                  *)
InitFormat(b, grant2) ==
    IF b.ret = -1 THEN b
    ELSE InitDone(
           extend_heap(
             PUT(PUT(PUT(PUT(b, b.ret + 0 * WSIZE, 0),
                         b.ret + 1 * WSIZE, PACK(DSIZE, 1)),
                     b.ret + 2 * WSIZE, PACK(DSIZE, 1)),
                 b.ret + 3 * WSIZE, PACK(0, 1)),
             CHUNKSIZE \div WSIZE, grant2))

mm_init(s, grant1, grant2) == InitFormat(mem_sbrk(s, 4 * WSIZE, grant1), grant2)

(* ============================ state machine ============================ *)
(* mem, rover, mem_brk: the arena, the search cursor and the provider's    *)
(* top (bytes handed out so far).  status: "fresh" before mm_init, "ready" *)
(* after it succeeded, "failed" after it failed, "hang" / "undefined" when *)
(* a call did not return normally.  live: the client's allocations, each   *)
(* the pointer it was given and the size it asked for.  last: the last     *)
(* call, its arguments, its result and its provider requests.  nops: the   *)
(* number of calls made after mm_init.  sizes: the request sizes the       *)
(* client of this run draws from.                                          *)
VARIABLES mem, rover, mem_brk, status, live, last, nops, sizes

vars == <<fill, mem_max, mem, rover, mem_brk, status, live, last, nops,
         sizes>>

(* The request sizes of a run: small blocks, blocks that need the heap to  *)
(* grow, a block that takes a whole chunk, and a request within 15 of      *)
(* SIZE_MAX (-15 is SIZE_MAX - 14).                                        *)
Loads == {{0, 16, 0 - 15}, {4100, 80}, {4088, 0 - 15}}
(* The request sizes of the runs of SpecScenario.                          *)
ScenarioLoad == {100, 40, 90}
(* The request sizes of the runs of SpecWrap.                              *)
WrapLoad == {16, 4088, 0 - 15}
(* Bytes the arena may hold before the program writes it, and bytes the    *)
(* client stores into its payloads.                                        *)
FillBytes == {0, 85}
ClientBytes == {17}
Word(b) == b * 16843009

Exec == [mem |-> mem, rover |-> rover, brk |-> mem_brk,
         ret |-> NULL, calls |-> << >>, st |-> "ok"]

NoCall == [op |-> "none", ptr |-> NULL, size |-> 0, ret |-> NULL,
           calls |-> << >>]

Commit(r, op, ptr, size) ==
    /\ mem' = r.mem
    /\ fill' = fill
    /\ mem_max' = mem_max
    /\ rover' = r.rover
    /\ mem_brk' = r.brk
    /\ last' = [op |-> op, ptr |-> ptr, size |-> size, ret |-> r.ret,
                calls |-> r.calls]

(* Before mm_init: nothing handed out by the provider, nothing written.    *)
Fresh ==
    /\ fill \in {Word(b) : b \in FillBytes}
    /\ mem = << >>
    /\ rover = NULL
    /\ mem_brk = 0
    /\ status = "fresh"
    /\ live = {}
    /\ last = NoCall
    /\ nops = 0

Init == Fresh /\ sizes \in Loads /\ mem_max = MaxHeap

(* The call returned in execution state r.                                 *)
InitReturns(r) ==
    /\ Commit(r, "init", NULL, 0)
    /\ status' = IF r.st # "ok" THEN r.st
                 ELSE IF r.ret = 0 THEN "ready" ELSE "failed"

MmInit ==
    /\ status = "fresh"
    /\ \E g1, g2 \in BOOLEAN : InitReturns(mm_init(Exec, g1, g2))
    /\ UNCHANGED <<live, nops, sizes>>

MallocReturns(r, size) ==
    /\ Commit(r, "malloc", NULL, size)
    /\ status' = IF r.st = "ok" THEN "ready" ELSE r.st
    /\ live' = IF r.st = "ok" /\ r.ret # NULL
               THEN live \cup {[ptr |-> r.ret, size |-> size]}
               ELSE live

MallocCall ==
    /\ status = "ready"
    /\ Cardinality(live) < MaxLive
    /\ \E size \in sizes, grant \in BOOLEAN :
         MallocReturns(mm_malloc(Exec, size, grant), size)
    /\ nops' = nops + 1
    /\ UNCHANGED sizes

Malloc == nops < MaxOps /\ MallocCall

FreeReturns(r, a) ==
    /\ Commit(r, "free", a.ptr, 0)
    /\ status' = IF r.st = "ok" THEN "ready" ELSE r.st
    /\ live' = live \ {a}

FreeCall(ptrs) ==
    /\ status = "ready"
    /\ \E a \in ptrs : FreeReturns(mm_free(Exec, a.ptr), a)
    /\ nops' = nops + 1
    /\ UNCHANGED sizes

Free == nops < MaxOps /\ FreeCall(live \cup {[ptr |-> NULL, size |-> 0]})

ReallocReturns(r, a, size) ==
    /\ Commit(r, "realloc", a.ptr, size)
    /\ status' = IF r.st = "ok" THEN "ready" ELSE r.st
    /\ live' = IF r.st # "ok" THEN live
               ELSE IF r.ret # NULL
               THEN (live \ {a}) \cup {[ptr |-> r.ret, size |-> size]}
               ELSE IF a.ptr # NULL /\ size = 0 THEN live \ {a}
               ELSE live

ReallocCall ==
    /\ status = "ready"
    /\ \E a \in live \cup {[ptr |-> NULL, size |-> 0]},
          size \in sizes, grant \in BOOLEAN :
         /\ a.ptr = NULL => Cardinality(live) < MaxLive
         /\ ReallocReturns(mm_realloc(Exec, a.ptr, size, grant), a, size)
    /\ nops' = nops + 1
    /\ UNCHANGED sizes

Realloc == nops < MaxOps /\ ReallocCall

(* The client stores into the allocation it has just been given:           *)
(* memset(p, b, n), n the size it asked for or WriteMax bytes if that is   *)
(* less.                                                                   *)
ClientFill(m, p, size, b) ==
    Overwrite(m, Idx(p), size \div WSIZE, size % WSIZE,
              [i \in Idx(p) .. Idx(p) + size \div WSIZE |-> Word(b)])

Memset ==
    /\ status = "ready"
    /\ last.op \in {"malloc", "realloc"}
    /\ \E a \in live, b \in ClientBytes :
         /\ a.ptr = last.ret
         /\ AllInArena({a.ptr, a.ptr + WSIZE * ((WriteMax - 1) \div WSIZE)})
         /\ mem' = ClientFill(mem, a.ptr, MinU(a.size, WriteMax), b)
         /\ mem' # mem
         /\ last' = [op |-> "memset", ptr |-> a.ptr, size |-> a.size,
                     ret |-> NULL, calls |-> << >>]
    /\ UNCHANGED <<fill, mem_max, rover, mem_brk, status, live, nops, sizes>>

Next == MmInit \/ Malloc \/ Free \/ Realloc \/ Memset

Spec == Init /\ [][Next]_vars

(* Runs of mm_malloc and mm_free alone, over ScenarioLoad.                 *)
InitScenario == Fresh /\ sizes = ScenarioLoad /\ mem_max = MaxHeap

MallocScenario == nops < ScenarioOps /\ MallocCall

FreeScenario == nops < ScenarioOps /\ FreeCall(live)

NextScenario == MmInit \/ MallocScenario \/ FreeScenario

SpecScenario == InitScenario /\ [][NextScenario]_vars

(* Longer runs of mm_malloc, mm_free and mm_realloc over WrapLoad.         *)
InitWrap == Fresh /\ sizes = WrapLoad /\ mem_max = WrapHeap

MallocWrap == nops < WrapOps /\ MallocCall

FreeWrap == nops < WrapOps /\ FreeCall(live)

ReallocWrap == nops < WrapOps /\ ReallocCall

NextWrap == MmInit \/ MallocWrap \/ FreeWrap \/ ReallocWrap

SpecWrap == InitWrap /\ [][NextWrap]_vars

(* =============================== views ================================= *)
(* The block sequence: from the first block after the prologue, stepping   *)
(* by the header's size, up to the first header of size 0 (the epilogue).  *)
RECURSIVE BlocksFrom(_, _)
BlocksFrom(m, bp) ==
    IF ~InArena(HDRP(bp)) \/ GET_SIZE(m, HDRP(bp)) = 0 THEN << >>
    ELSE << [bp |-> bp, size |-> GET_SIZE(m, HDRP(bp)),
             alloc |-> GET_ALLOC(m, HDRP(bp))] >>
         \o BlocksFrom(m, NEXT_BLKP(m, bp))

FirstBlock == heap_listp + DSIZE
Blocks(m) == BlocksFrom(m, FirstBlock)

(* The (size, alloc) tags of the block sequence.                           *)
TagsOf(B) == [i \in 1 .. Len(B) |-> <<B[i].size, B[i].alloc>>]
Tags(m) == TagsOf(Blocks(m))

IsFree(b) == b.alloc = 0
Fits(b, asize) == IsFree(b) /\ U_LE(asize, b.size)

(* The lowest-addressed FREE block of size >= asize, or NULL.              *)
LowestFit(m, asize) ==
    LET B == Blocks(m)
        I == {i \in 1 .. Len(B) : Fits(B[i], asize)}
    IN IF I = {} THEN NULL
       ELSE B[CHOOSE i \in I : \A j \in I : i <= j].bp

(* The last call was a mm_malloc(size), size > 0, that returned normally.  *)
MallocReturned == status = "ready" /\ last.op = "malloc" /\ last.size # 0
MallocGave == MallocReturned /\ last.ret # NULL

(* ============================= properties ============================== *)

(* C1: whenever an operation has returned, no two physically adjacent      *)
(* blocks between the prologue and the epilogue are both FREE.             *)
C1_NoAdjacentFree ==
    status = "ready" =>
        \A i \in 1 .. Len(Blocks(mem)) - 1 :
            ~(IsFree(Blocks(mem)[i]) /\ IsFree(Blocks(mem)[i + 1]))

(* C2: every mm_malloc(size), size > 0, that returns a non-null p returns  *)
(* a multiple of 8 that is the payload pointer (4 bytes past the header)   *)
(* of an ALLOCATED block whose payload, its size minus 8, is at least      *)
(* size.                                                                   *)
C2_MallocResult ==
    MallocGave =>
        /\ last.ret % 8 = 0
        /\ \E i \in 1 .. Len(Blocks(mem)) :
              /\ Blocks(mem)[i].bp = last.ret
              /\ Blocks(mem)[i].alloc = 1
              /\ U_LE(last.size, Blocks(mem)[i].size - DSIZE)

(* C3: the payload ranges [p, p + blocksize(p) - 8) of the live            *)
(* allocations are pairwise disjoint and lie between the prologue and the  *)
(* epilogue header, and each live pointer's block is marked ALLOCATED.     *)
LiveBlock(a) ==
    \E i \in 1 .. Len(Blocks(mem)) :
        Blocks(mem)[i].bp = a.ptr /\ Blocks(mem)[i].alloc = 1

PayloadEnd(a) == a.ptr + GET_SIZE(mem, HDRP(a.ptr)) - DSIZE

C3_LiveDisjoint ==
    status = "ready" =>
        /\ \A a \in live :
              /\ LiveBlock(a)
              /\ a.ptr > heap_listp
              /\ PayloadEnd(a) <= MEM_START + mem_brk - WSIZE
        /\ \A a, b \in live :
              a # b => (PayloadEnd(a) <= b.ptr \/ PayloadEnd(b) <= a.ptr)

(* C4: mm_malloc searches first-fit: when some FREE block fits, it returns *)
(* the lowest-addressed FREE block of at least the adjusted size without   *)
(* calling the provider; and in the state after init; a = malloc(100);     *)
(* b = malloc(40); free(a), malloc(90) returns a.                          *)
AfterScenarioC4 ==
    /\ Tags(mem) = << <<112, 0>>, <<48, 1>>, <<3936, 0>> >>
    /\ live = {[ptr |-> FirstBlock + 112, size |-> 40]}

C4_FirstFit ==
    [][(/\ status = "ready" /\ status' = "ready"
        /\ nops' = nops + 1
        /\ last'.op = "malloc" /\ last'.size # 0)
       => /\ LowestFit(mem, AdjustedSize(last'.size)) # NULL
             => /\ last'.ret = LowestFit(mem, AdjustedSize(last'.size))
                /\ last'.calls = << >>
          /\ (AfterScenarioC4 /\ last'.size = 90)
             => (last'.ret = FirstBlock /\ last'.calls = << >>)]_vars

(* The execution state r as the next call finds it.                        *)
Continue(r) == [r EXCEPT !.ret = NULL, !.calls = << >>]

(* The call returned normally with a pointer and no provider request.      *)
GaveWithoutGrowth(r) == r.st = "ok" /\ r.ret # NULL /\ r.calls = << >>

(* C5: if p = mm_malloc(n) returns non-null and mm_free(p) follows, a      *)
(* following mm_malloc(n) succeeds without a provider call; and when the   *)
(* first mm_malloc(n) did not grow the heap, the (size, alloc) sequence    *)
(* after the free is the one before the malloc.                            *)
RoundTripFreed(a, f, n, g) ==
    /\ f.st = "ok"
    /\ a.calls = << >> => Tags(f.mem) = Tags(mem)
    /\ GaveWithoutGrowth(mm_malloc(Continue(f), n, g))

RoundTrip(a, n, g) ==
    (a.st = "ok" /\ a.ret # NULL)
        => RoundTripFreed(a, mm_free(Continue(a), a.ret), n, g)

C5_RoundTrip ==
    status = "ready" =>
        \A n \in sizes \ {0}, g1, g2 \in BOOLEAN :
            RoundTrip(mm_malloc(Exec, n, g1), n, g2)

(* C6: freeing two physically adjacent live blocks x, y in either order    *)
(* gives the same block sequence, with x and y inside one FREE block, so   *)
(* a request of adjusted size <= size(x) + size(y) then needs no provider  *)
(* call; after init; a = malloc(16); b = malloc(16); free(a), free(b)      *)
(* finds both neighbours FREE and malloc(32) succeeds without growth.      *)
Adjacent(x, y) ==
    /\ x.ptr # y.ptr
    /\ InArena(HDRP(x.ptr))
    /\ NEXT_BLKP(mem, x.ptr) = y.ptr

Covers(b, x, y) ==
    /\ IsFree(b)
    /\ b.bp <= x.ptr
    /\ y.ptr + GET_SIZE(mem, HDRP(y.ptr)) <= b.bp + b.size

BothFreed(xy, yx, x, y) ==
    /\ xy.st = "ok" /\ yx.st = "ok"
    /\ Tags(xy.mem) = Tags(yx.mem)
    /\ \E i \in 1 .. Len(Blocks(xy.mem)) : Covers(Blocks(xy.mem)[i], x, y)
    /\ \A n \in sizes \ {0}, g \in BOOLEAN :
          U_LE(AdjustedSize(n),
               GET_SIZE(mem, HDRP(x.ptr)) + GET_SIZE(mem, HDRP(y.ptr)))
          => /\ GaveWithoutGrowth(mm_malloc(Continue(xy), n, g))
             /\ GaveWithoutGrowth(mm_malloc(Continue(yx), n, g))

AfterScenarioC6 ==
    /\ Tags(mem) = << <<24, 1>>, <<24, 1>>, <<4048, 0>> >>
    /\ live = {[ptr |-> FirstBlock, size |-> 16],
               [ptr |-> FirstBlock + 24, size |-> 16]}

BothNeighboursFree(f, bp) ==
    /\ f.st = "ok"
    /\ GET_ALLOC(f.mem, FTRP(f.mem, PREV_BLKP(f.mem, bp))) = 0
    /\ GET_ALLOC(f.mem, HDRP(NEXT_BLKP(f.mem, bp))) = 0

SameOutcome(a, b) ==
    /\ a.ret = b.ret
    /\ a.mem = b.mem
    /\ a.rover = b.rover
    /\ a.brk = b.brk
    /\ a.st = b.st

ReturnsNull(r) == r.st = "ok" => r.ret = NULL

(* C7: mm_realloc(NULL, n) returns what mm_malloc(n) returns and leaves    *)
(* the same heap state (block sequence and cursor); mm_realloc(p, 0) for   *)
(* a live p returns NULL and leaves the heap state mm_free(p) leaves.      *)
C7_ReallocEdges ==
    status = "ready" =>
        /\ \A n \in sizes, g \in BOOLEAN :
              SameOutcome(mm_realloc(Exec, NULL, n, g), mm_malloc(Exec, n, g))
        /\ \A a \in live, g \in BOOLEAN :
              /\ ReturnsNull(mm_realloc(Exec, a.ptr, 0, g))
              /\ SameOutcome(mm_realloc(Exec, a.ptr, 0, g),
                             mm_free(Exec, a.ptr))

C7_Witness ==
    /\ status = "ready"
    /\ last.op = "realloc" /\ last.ptr # NULL /\ last.size = 0
    /\ last.ret = NULL
    /\ \E i \in 1 .. Len(Blocks(mem)) :
          IsFree(Blocks(mem)[i]) /\ Blocks(mem)[i].bp <= last.ptr
          /\ last.ptr < Blocks(mem)[i].bp + Blocks(mem)[i].size
    /\ live # {}

(* The byte at address p of memory m (little-endian words).                *)
ByteAt(m, p) ==
    LET w == GET(m, p - (p % WSIZE))
        k == p % WSIZE
    IN (IF k = 0 THEN w ELSE IF k = 1 THEN w \div 256
        ELSE IF k = 2 THEN w \div 65536 ELSE w \div 16777216) % 256

(* C8: when mm_realloc(p, n), p live and n > 0, returns a non-null q: q's  *)
(* block is ALLOCATED with payload >= n, p's old block lies in a FREE      *)
(* block with no FREE neighbour, q differs from p, and the first           *)
(* min(old payload of p, n) bytes at q are the bytes that were at p.       *)
ReallocMoved ==
    /\ status = "ready" /\ status' = "ready"
    /\ nops' = nops + 1
    /\ last'.op = "realloc" /\ last'.ptr # NULL /\ last'.size # 0
    /\ last'.ret # NULL

OldBlockFreed(B, p, size) ==
    \E i \in 1 .. Len(B) :
        /\ IsFree(B[i])
        /\ B[i].bp <= p /\ p - DSIZE + size <= B[i].bp + B[i].size - DSIZE
        /\ i > 1 => ~IsFree(B[i - 1])
        /\ i < Len(B) => ~IsFree(B[i + 1])

NewBlockHolds(B, q, n) ==
    \E i \in 1 .. Len(B) :
        B[i].bp = q /\ B[i].alloc = 1 /\ U_LE(n, B[i].size - DSIZE)

C8_ReallocMoves ==
    [][ReallocMoved =>
        /\ NewBlockHolds(Blocks(mem'), last'.ret, last'.size)
        /\ OldBlockFreed(Blocks(mem'), last'.ptr,
                         GET_SIZE(mem, HDRP(last'.ptr)))
        /\ last'.ret # last'.ptr
        /\ \A k \in 0 .. MinU(GET_SIZE(mem, HDRP(last'.ptr)) - DSIZE,
                              last'.size) - 1 :
              ByteAt(mem', last'.ret + k) = ByteAt(mem, last'.ptr + k)]_vars

(* C9: mm_malloc calls the provider at most once, and exactly when no FREE *)
(* block of the heap has size >= asize; it asks for max(asize, 4096)       *)
(* bytes, at least the request; the request is then placed at the start of *)
(* the new block (joined with a FREE last block), split when the remainder *)
(* is >= 16 bytes and whole otherwise.                                     *)
MallocStep ==
    /\ status = "ready" /\ status' = "ready"
    /\ nops' = nops + 1
    /\ last'.op = "malloc" /\ last'.size # 0

(* The FREE block that ends at the epilogue, as a sequence of 0 or 1.      *)
FreeTail(B) ==
    IF B # << >> /\ IsFree(B[Len(B)]) THEN << B[Len(B)] >> ELSE << >>

(* Where a block of csize bytes at bp holds asize bytes after placement.   *)
Placed(B, bp, csize, asize) ==
    \E i \in 1 .. Len(B) :
        /\ B[i].bp = bp /\ B[i].alloc = 1
        /\ IF U_LE(2 * DSIZE, csize - asize)
           THEN /\ B[i].size = asize
                /\ i < Len(B)
                /\ B[i + 1].size = csize - asize /\ IsFree(B[i + 1])
           ELSE B[i].size = csize

GrownAndPlaced(B, B2, ret, amount, asize) ==
    IF FreeTail(B) = << >>
    THEN /\ ret = MEM_START + mem_brk
         /\ Placed(B2, ret, amount, asize)
    ELSE /\ ret = FreeTail(B)[1].bp
         /\ Placed(B2, ret, FreeTail(B)[1].size + amount, asize)

C9_GrowOnMiss ==
    [][MallocStep =>
        /\ Len(last'.calls) <= 1
        /\ Len(last'.calls) = 1
               <=> LowestFit(mem, AdjustedSize(last'.size)) = NULL
        /\ Len(last'.calls) = 1 =>
              /\ last'.calls[1] = MAX(AdjustedSize(last'.size), CHUNKSIZE)
              /\ U_LE(last'.size, last'.calls[1])
              /\ last'.ret # NULL =>
                    GrownAndPlaced(Blocks(mem), Blocks(mem'), last'.ret,
                                   last'.calls[1], AdjustedSize(last'.size))]_vars

(* C10: when mm_malloc asks the provider to grow the heap and the         *)
(* provider refuses, then no FREE block fitted, mm_malloc returns NULL     *)
(* after that single request, and the heap is as it was: same top, same    *)
(* (size, alloc) tags, same words, same cursor.                            *)
ProviderRefused(r) == r.calls # << >> /\ r.brk = mem_brk

Refused(r, n) ==
    ProviderRefused(r) =>
        /\ LowestFit(mem, AdjustedSize(n)) = NULL
        /\ r.st = "ok"
        /\ r.ret = NULL
        /\ Len(r.calls) = 1
        /\ r.mem = mem
        /\ Tags(r.mem) = Tags(mem)
        /\ r.rover = rover

C10_RefusedGrowth ==
    status = "ready" =>
        \A n \in sizes \ {0}, g \in BOOLEAN :
            Refused(mm_malloc(Exec, n, g), n)

C10_Witness ==
    /\ MallocReturned
    /\ last.ret = NULL
    /\ Len(last.calls) = 1
    /\ ProviderRefused(mm_malloc(Exec, last.size, FALSE))
    /\ live # {}

(* C11: when mm_realloc(p, n), p live and n > 0, returns NULL because the  *)
(* new block cannot be obtained, the block at p keeps its header and       *)
(* footer (size and ALLOCATED bit) and its payload bytes, and no word of   *)
(* the arena, the cursor or the heap top changes: p is not freed.          *)
ReallocFailed ==
    /\ status = "ready" /\ status' = "ready"
    /\ nops' = nops + 1
    /\ last'.op = "realloc" /\ last'.ptr # NULL /\ last'.size # 0
    /\ last'.ret = NULL

(* Every payload word of the block at p is in m2 what it is in m1; a word  *)
(* outside both domains holds fill in both.                                *)
SamePayload(m1, m2, p) ==
    \A k \in DOMAIN m1 \cup DOMAIN m2 :
       (Idx(p) <= k /\ k < Idx(FTRP(m1, p))) =>
          GET(m2, MEM_START + k * WSIZE) = GET(m1, MEM_START + k * WSIZE)

SameBlockAt(m1, m2, p) ==
    /\ GET(m2, HDRP(p)) = GET(m1, HDRP(p))
    /\ GET(m2, FTRP(m1, p)) = GET(m1, FTRP(m1, p))
    /\ GET_ALLOC(m1, HDRP(p)) = 1 => GET_ALLOC(m2, HDRP(p)) = 1
    /\ SamePayload(m1, m2, p)

C11_ReallocFailureKeeps ==
    [][ReallocFailed =>
        /\ SameBlockAt(mem, mem', last'.ptr)
        /\ mem' = mem /\ rover' = rover /\ mem_brk' = mem_brk
        /\ live' = live]_vars

C11_Witness ==
    /\ status = "ready"
    /\ last.op = "realloc" /\ last.ptr # NULL /\ last.size # 0
    /\ last.ret = NULL
    /\ last.calls # << >>
    /\ \E a \in live : a.ptr = last.ptr
    /\ \E i \in 1 .. Len(Blocks(mem)) :
          Blocks(mem)[i].bp = last.ptr /\ Blocks(mem)[i].alloc = 1

(* C12: mm_malloc(0) returns NULL and mm_free(NULL) returns, and each      *)
(* leaves the heap top, every word and tag of the heap and the cursor      *)
(* unchanged and makes no provider call.                                   *)
NoOpCall ==
    /\ status = "ready"
    /\ nops' = nops + 1
    /\ \/ last'.op = "malloc" /\ last'.size = 0
       \/ last'.op = "free" /\ last'.ptr = NULL

C12_NoOps ==
    [][NoOpCall =>
        /\ status' = "ready"
        /\ last'.ret = NULL
        /\ last'.calls = << >>
        /\ mem' = mem /\ Tags(mem') = Tags(mem)
        /\ rover' = rover /\ mem_brk' = mem_brk
        /\ live' = live]_vars

C12_Witness ==
    /\ status = "ready"
    /\ last.op = "malloc" /\ last.size = 0
    /\ last.ret = NULL /\ last.calls = << >>
    /\ live # {}

(* The sum of the sizes of the blocks of B.                                *)
RECURSIVE SumSizes(_)
SumSizes(B) == IF B = << >> THEN 0 ELSE Head(B).size + SumSizes(Tail(B))

(* The payload pointer at which the block walk of m ends.                  *)
WalkEnd(m) == FirstBlock + SumSizes(Blocks(m))

(* C13: after every operation the heap is well formed: the prologue is     *)
(* (8, ALLOCATED) in header and footer; stepping by header sizes from it   *)
(* reaches the epilogue header (0, ALLOCATED) at the last word of the      *)
(* heap; every block between has a size that is a multiple of 8 and >= 16  *)
(* and a footer equal to its header; the sizes sum to the heap size minus  *)
(* the 16 bootstrap bytes.                                                 *)
TagsAgree(m, b) ==
    /\ b.size % DSIZE = 0
    /\ b.size >= 2 * DSIZE
    /\ GET(m, FTRP(m, b.bp)) = GET(m, HDRP(b.bp))

C13_WellFormed ==
    status = "ready" =>
        /\ GET(mem, HDRP(heap_listp)) = PACK(DSIZE, 1)
        /\ GET(mem, FTRP(mem, heap_listp)) = PACK(DSIZE, 1)
        /\ FTRP(mem, heap_listp) = heap_listp
        /\ \A i \in 1 .. Len(Blocks(mem)) : TagsAgree(mem, Blocks(mem)[i])
        /\ GET(mem, HDRP(WalkEnd(mem))) = PACK(0, 1)
        /\ HDRP(WalkEnd(mem)) = MEM_START + mem_brk - WSIZE
        /\ SumSizes(Blocks(mem)) = mem_brk - 2 * DSIZE

(* C14: after mm_init succeeds and after every later operation the rover   *)
(* is the payload pointer of a block of the block sequence or of the       *)
(* epilogue, never a pointer into the interior of a block.                 *)
C14_RoverOnBlock ==
    status = "ready" =>
        \/ \E i \in 1 .. Len(Blocks(mem)) : Blocks(mem)[i].bp = rover
        \/ /\ rover = WalkEnd(mem)
           /\ GET(mem, HDRP(rover)) = PACK(0, 1)

(* C16: every mm_malloc, mm_free and mm_realloc call returns: no call      *)
(* spins in find_fit's second loop on a size-0 header away from the rover. *)
C16_CallsReturn == status # "hang"

(* The blocks in find_fit's rotation order: from the block the rover       *)
(* addresses up to the epilogue, then from the first block up to but       *)
(* excluding the rover's block; the whole walk when the rover addresses    *)
(* the epilogue.                                                           *)
Rotation(B, rv) ==
    LET I == {i \in 1 .. Len(B) : B[i].bp = rv}
    IN IF I = {} THEN B
       ELSE LET k == CHOOSE i \in I : TRUE
            IN SubSeq(B, k, Len(B)) \o SubSeq(B, 1, k - 1)

(* The first block of B that fits asize, or NULL.                          *)
FirstFitIn(B, asize) ==
    LET I == {i \in 1 .. Len(B) : Fits(B[i], asize)}
    IN IF I = {} THEN NULL
       ELSE B[CHOOSE i \in I : \A j \in I : i <= j].bp

(* What find_fit answered in f, asked from the heap m with rover rv.       *)
FitAnswer(f, m, rv, asize) ==
    /\ f.st = "ok"
    /\ f.ret = FirstFitIn(Rotation(Blocks(m), rv), asize)
    /\ (f.ret = NULL <=> \A i \in 1 .. Len(Blocks(m)) :
                            ~Fits(Blocks(m)[i], asize))
    /\ f.ret # NULL =>
         \E i \in 1 .. Len(Blocks(m)) :
            Blocks(m)[i].bp = f.ret /\ Blocks(m)[i].alloc = 0
    /\ f.ret \notin {heap_listp, WalkEnd(m)}
    /\ f.mem = m
    /\ f.rover = rv
    /\ f.brk = mem_brk

(* C15: in every state between calls, find_fit(asize), for the adjusted    *)
(* size of any request, returns the first FREE block of size >= asize in   *)
(* rotation order (rover to epilogue, then first block to rover), returns  *)
(* NULL exactly when no FREE block fits, never returns an ALLOCATED block, *)
(* the prologue or the epilogue, and changes neither heap nor rover.       *)
C15_FindFit ==
    status = "ready" =>
      \A n \in sizes \ {0} :
         FitAnswer(find_fit(Exec, AdjustedSize(n)), mem, rover,
                   AdjustedSize(n))

(* Index of the block of B that starts at bp, or 0.                        *)
IndexOf(B, bp) ==
    IF \E i \in 1 .. Len(B) : B[i].bp = bp
    THEN CHOOSE i \in 1 .. Len(B) : B[i].bp = bp
    ELSE 0

(* What coalesce(bp) answered in c, called on the FREE block i of the      *)
(* block sequence B: the blocks lo .. hi (i and its FREE neighbours) have  *)
(* become one FREE block at B[lo].bp, the other blocks are as they were.   *)
Merged(c, B, lo, hi) ==
    /\ c.st = "ok"
    /\ c.ret = B[lo].bp
    /\ GET(c.mem, HDRP(c.ret)) = PACK(SumSizes(SubSeq(B, lo, hi)), 0)
    /\ GET(c.mem, FTRP(c.mem, c.ret)) = PACK(SumSizes(SubSeq(B, lo, hi)), 0)
    /\ Blocks(c.mem)
         = SubSeq(B, 1, lo - 1)
           \o << [bp |-> B[lo].bp, size |-> SumSizes(SubSeq(B, lo, hi)),
                  alloc |-> 0] >>
           \o SubSeq(B, hi + 1, Len(B))
    /\ SumSizes(Blocks(c.mem)) = SumSizes(B)
    /\ c.brk = mem_brk

CoalesceAnswer(c, B, i) ==
    Merged(c, B,
           IF i > 1 /\ B[i - 1].alloc = 0 THEN i - 1 ELSE i,
           IF i < Len(B) /\ B[i + 1].alloc = 0 THEN i + 1 ELSE i)

(* The state in which mm_free(bp) calls coalesce(bp).                      *)
Freed(bp) == FreeMark(Exec, bp)

(* C17: in every state between calls and for every live block bp, the      *)
(* coalesce(bp) that mm_free(bp) runs on the block just marked FREE        *)
(* returns a FREE block that starts at the preceding block if that was     *)
(* FREE and at bp otherwise, whose size is bp's plus that of its FREE      *)
(* neighbours, header and footer alike; every other block keeps its tags   *)
(* and the sum of all block sizes is unchanged.                            *)
C17_Coalesce ==
    status = "ready" =>
      \A a \in live :
         (Freed(a.ptr).st = "ok"
            /\ IndexOf(Blocks(Freed(a.ptr).mem), a.ptr) # 0)
         => CoalesceAnswer(coalesce(Freed(a.ptr), a.ptr),
                           Blocks(Freed(a.ptr).mem),
                           IndexOf(Blocks(Freed(a.ptr).mem), a.ptr))

(* The blocks that take the place of the FREE block b when place(b.bp,     *)
(* asize) has run: an ALLOCATED block of asize bytes and a FREE remainder  *)
(* when the remainder is a block (16 bytes or more), else b ALLOCATED.     *)
PlacedAs(b, asize) ==
    IF b.size - asize >= 2 * DSIZE
    THEN << [bp |-> b.bp, size |-> asize, alloc |-> 1],
            [bp |-> b.bp + asize, size |-> b.size - asize, alloc |-> 0] >>
    ELSE << [bp |-> b.bp, size |-> b.size, alloc |-> 1] >>

(* What place(B[i].bp, asize) left in p.                                   *)
PlaceAnswer(p, B, i, asize) ==
    /\ p.st = "ok"
    /\ Blocks(p.mem)
         = SubSeq(B, 1, i - 1) \o PlacedAs(B[i], asize)
           \o SubSeq(B, i + 1, Len(B))
    /\ \A k \in 1 .. Len(PlacedAs(B[i], asize)) :
          GET(p.mem, FTRP(p.mem, PlacedAs(B[i], asize)[k].bp))
            = GET(p.mem, HDRP(PlacedAs(B[i], asize)[k].bp))
    /\ p.brk = mem_brk

(* The block mm_malloc handed out has between asize and asize + 15 bytes.  *)
HandedOut(B, bp, asize) ==
    \E i \in 1 .. Len(B) :
       /\ B[i].bp = bp
       /\ B[i].alloc = 1
       /\ asize <= B[i].size
       /\ B[i].size < asize + 2 * DSIZE

(* C18: in every state between calls, place(bp, asize) on any FREE block   *)
(* of size csize >= asize, asize the adjusted size of a request, leaves an *)
(* ALLOCATED block of asize bytes followed by a FREE block of csize -      *)
(* asize bytes when csize - asize >= 16, and the whole block ALLOCATED     *)
(* otherwise; the block a mm_malloc has just handed out has size s with    *)
(* asize <= s < asize + 16; no FREE block is smaller than 16 bytes.        *)
C18_Place ==
    status = "ready" =>
      /\ \A n \in sizes \ {0} : \A i \in 1 .. Len(Blocks(mem)) :
            Fits(Blocks(mem)[i], AdjustedSize(n)) =>
              PlaceAnswer(place(Exec, Blocks(mem)[i].bp, AdjustedSize(n)),
                          Blocks(mem), i, AdjustedSize(n))
      /\ MallocGave =>
            HandedOut(Blocks(mem), last.ret, AdjustedSize(last.size))
      /\ \A i \in 1 .. Len(Blocks(mem)) :
            IsFree(Blocks(mem)[i]) => Blocks(mem)[i].size >= 2 * DSIZE

(* C19: for the request size of the mm_malloc call that has just returned  *)
(* (any of 1 .. 2^w - 1), the adjusted size is a multiple of 8, at least   *)
(* 16 and at least size + 8, compared as unsigned values: the rounding     *)
(* does not wrap, and the block handed out holds at least size bytes.      *)
C19_AdjustedSize ==
    MallocReturned =>
      /\ AdjustedSize(last.size) % DSIZE = 0
      /\ U_LE(2 * DSIZE, AdjustedSize(last.size))
      /\ U_LE(last.size, AdjustedSize(last.size))
      /\ U_LE(DSIZE, AdjustedSize(last.size) - last.size)
      /\ last.ret # NULL =>
           U_LE(last.size, GET_SIZE(mem, HDRP(last.ret)) - DSIZE)

(* The step is a call that returned and is not about p: a mm_malloc, or a  *)
(* mm_free(q) or mm_realloc(q, n) with q # p.                              *)
OtherCall(p) ==
    /\ status = "ready" /\ status' = "ready"
    /\ nops' = nops + 1
    /\ \/ last'.op = "malloc"
       \/ last'.op \in {"free", "realloc"} /\ last'.ptr # p

(* The block at p has in m2 the header, the footer and every payload word  *)
(* it has in m1.                                                           *)
KeepsBlock(m1, m2, p) ==
    /\ GET(m2, HDRP(p)) = GET(m1, HDRP(p))
    /\ GET(m2, FTRP(m1, p)) = GET(m1, FTRP(m1, p))
    /\ SamePayload(m1, m2, p)

(* C20: a mm_malloc, a mm_free(q) or a mm_realloc(q, n) with q # p leaves   *)
(* the header, the footer and every payload byte of each live block p as   *)
(* they were, and no call lowers the heap top.                             *)
C20_Frame ==
    [][/\ mem_brk' >= mem_brk
       /\ \A a \in live : OtherCall(a.ptr) => KeepsBlock(mem, mem', a.ptr)]_vars

====
